---------------------------- MODULE Spec2Model ----------------------------
(***************************************************************************)
(* Model of django/core/cache/__init__.py: the legacy URI parser, the      *)
(* module-level legacy bridge and default-alias check, parse_backend_conf, *)
(* get_cache and the module-level "cache" singleton.                       *)
(*                                                                         *)
(* Python strings are sequences of one-character strings, so that find,    *)
(* split, startswith, slicing and "in" are computed as Python computes     *)
(* them.  A dict is a function whose domain is its key set.                *)
(***************************************************************************)
EXTENDS Integers, Sequences, FiniteSets, TLC

VARIABLES
    CACHES,         \* settings.CACHES: alias -> entry (a dict)
    CACHES0,        \* history: settings.CACHES when the module starts loading
    CACHE_BACKEND,  \* settings.CACHE_BACKEND (legacy flat setting)
    mpc,            \* position of the module-level code
    merr,           \* exception that aborted the module-level code, or "none"
    cache,          \* the module-level name "cache"
    bridgeRuns,     \* history: executions of the body of "if not settings.CACHES"
    legacyReads,    \* history: reads of the CACHE_* legacy settings
    receivers,      \* receivers connected to signals.request_finished
    loads,          \* history: whether get_cache has reached import_module(engine)
    th,             \* per caller: the frame of its get_cache call
    uri,            \* input of the stand-alone parse_backend_uri run
    parsed          \* result of the stand-alone parse_backend_uri run

vars == <<CACHES, CACHES0, CACHE_BACKEND, mpc, merr, cache, bridgeRuns, legacyReads,
          receivers, loads, th, uri, parsed>>

(***************************************************************************)
(* Bounds of the model.                                                    *)
(***************************************************************************)
NumCallers == 2
MaxHead == 4
MaxSegs == 2

(***************************************************************************)
(* Python str and dict primitives.                                         *)
(***************************************************************************)
EmptyStr == <<>>

EmptyDict == [x \in {} |-> x]

\* s.find(c) for a one-character c: 0-based index of the first c, or -1
Find(s, c) ==
    IF \E i \in 1..Len(s) : s[i] = c
    THEN (CHOOSE i \in 1..Len(s) : s[i] = c /\ \A j \in 1..(i - 1) : s[j] # c) - 1
    ELSE -1

\* s[a:b] and s[a:] for 0 <= a, b <= len(s)
Slice(s, a, b) == SubSeq(s, a + 1, b)

SliceFrom(s, a) == SubSeq(s, a + 1, Len(s))

StartsWith(s, p) == Len(s) >= Len(p) /\ SubSeq(s, 1, Len(p)) = p

EndsWith(s, p) == Len(s) >= Len(p) /\ SubSeq(s, Len(s) - Len(p) + 1, Len(s)) = p

\* sub in s
Contains(s, sub) ==
    \E i \in 0..(Len(s) - Len(sub)) : SubSeq(s, i + 1, i + Len(sub)) = sub

\* s.split(c, 1): at most one split, at the first c
Split1(s, c) ==
    IF Find(s, c) = -1 THEN <<s>>
    ELSE <<Slice(s, 0, Find(s, c)), SliceFrom(s, Find(s, c) + 1)>>

\* s.split(c)
RECURSIVE Split(_, _)
Split(s, c) ==
    IF Find(s, c) = -1 THEN <<s>>
    ELSE <<Slice(s, 0, Find(s, c))>> \o Split(SliceFrom(s, Find(s, c) + 1), c)

\* s.replace(a, b) for one-character a and b
Replace(s, a, b) == [i \in 1..Len(s) |-> IF s[i] = a THEN b ELSE s[i]]

\* "".join(parts)
RECURSIVE Join(_)
Join(parts) == IF parts = <<>> THEN <<>> ELSE Head(parts) \o Join(Tail(parts))

DictSet(d, k, v) == [x \in DOMAIN d \cup {k} |-> IF x = k THEN v ELSE d[x]]

\* d.update(e): the keys of e win
DictUpdate(d, e) == [x \in DOMAIN d \cup DOMAIN e |-> IF x \in DOMAIN e THEN e[x] ELSE d[x]]

\* what is left of d after d.pop(k)
DictWithout(d, k) == [x \in DOMAIN d \ {k} |-> d[x]]

\* dict(pairs): later pairs overwrite earlier ones
RECURSIVE DictOfPairs(_)
DictOfPairs(pairs) ==
    IF pairs = <<>> THEN EmptyDict
    ELSE LET last == pairs[Len(pairs)]
         IN  DictSet(DictOfPairs(SubSeq(pairs, 1, Len(pairs) - 1)), last[1], last[2])

(***************************************************************************)
(* parse_qsl, the standard library's query-string decoder (urlparse /      *)
(* cgi / mod_python.util), called with its defaults keep_blank_values=0    *)
(* and strict_parsing=0.                                                   *)
(***************************************************************************)
\* _hextochr, restricted to the escapes that can be spelled with the hex
\* digits of the model's input alphabet ("2" and "6")
HexToChr ==
    [h \in {<<"2", "2">>, <<"2", "6">>, <<"6", "2">>, <<"6", "6">>} |->
        IF h = <<"2", "2">> THEN "\"" ELSE IF h = <<"2", "6">> THEN "&"
        ELSE IF h = <<"6", "2">> THEN "b" ELSE "f"]

UnquoteItem(item) ==
    IF Len(item) >= 2 /\ Slice(item, 0, 2) \in DOMAIN HexToChr
    THEN <<HexToChr[Slice(item, 0, 2)]>> \o SliceFrom(item, 2)
    ELSE <<"%">> \o item

\* unquote(s): res = s.split('%'); every item but the first is decoded
unquote(s) ==
    LET res == Split(s, "%")
    IN  Join([i \in 1..Len(res) |-> IF i = 1 THEN res[i] ELSE UnquoteItem(res[i])])

\* [s2 for s1 in qs.split('&') for s2 in s1.split(';')]
RECURSIVE SplitEach(_, _)
SplitEach(parts, c) ==
    IF parts = <<>> THEN <<>> ELSE Split(Head(parts), c) \o SplitEach(Tail(parts), c)

QslFields(qs) == SplitEach(Split(qs, "&"), ";")

\* one turn of parse_qsl's loop: the (name, value) pairs the field appends
QslField(name_value) ==
    LET nv == Split1(name_value, "=")
    IN  IF name_value = EmptyStr THEN <<>>
        ELSE IF Len(nv) # 2 THEN <<>>
        ELSE IF Len(nv[2]) = 0 THEN <<>>
        ELSE << <<unquote(Replace(nv[1], "+", " ")), unquote(Replace(nv[2], "+", " "))>> >>

RECURSIVE QslLoop(_)
QslLoop(fields) ==
    IF fields = <<>> THEN <<>> ELSE QslField(Head(fields)) \o QslLoop(Tail(fields))

parse_qsl(qs) == QslLoop(QslFields(qs))

(***************************************************************************)
(* Module constants.                                                       *)
(***************************************************************************)
BackendsPackage == <<"d", "j", "a", "n", "g", "o", ".", "c", "o", "r", "e", ".", "c", "a", "c", "h", "e", ".", "b", "a", "c", "k", "e", "n", "d", "s", ".">>

BACKENDS ==
    [s \in {<<"m", "e", "m", "c", "a", "c", "h", "e", "d">>, <<"l", "o", "c", "m", "e", "m">>, <<"f", "i", "l", "e">>, <<"d", "b">>, <<"d", "u", "m", "m", "y">>} |->
        IF s = <<"f", "i", "l", "e">> THEN <<"f", "i", "l", "e", "b", "a", "s", "e", "d">> ELSE s]

DEFAULT_CACHE_ALIAS == <<"d", "e", "f", "a", "u", "l", "t">>

K_ENGINE == <<"E", "N", "G", "I", "N", "E">>

K_NAME == <<"N", "A", "M", "E">>

K_VERSION == <<"V", "E", "R", "S", "I", "O", "N">>

K_KEY_PREFIX == <<"K", "E", "Y", "_", "P", "R", "E", "F", "I", "X">>

K_KEY_FUNC == <<"K", "E", "Y", "_", "F", "U", "N", "C">>

(***************************************************************************)
(* parse_backend_uri                                                       *)
(***************************************************************************)
UriError == [exc |-> "InvalidCacheBackendError", scheme |-> EmptyStr,
             host |-> EmptyStr, params |-> EmptyDict]

\* (not the code: host.rstrip('/'))
StripAllSlashes(host) ==
    LET keep == {n \in 0..Len(host) : \A i \in (n + 1)..Len(host) : host[i] = "/"}
    IN  Slice(host, 0, CHOOSE n \in keep : \A m \in keep : n <= m)

\* if host.endswith('/'): host = host[:-1]
StripTrailingSlash(host) ==
    IF EndsWith(host, <<"/">>) THEN Slice(host, 0, Len(host) - 1) ELSE host

\* the query parameters: dict(parse_qsl(rest[qpos+1:])), or {} without a '?'
UriParams(rest, qpos) ==
    IF qpos # -1 THEN DictOfPairs(parse_qsl(SliceFrom(rest, qpos + 1))) ELSE EmptyDict

\* host = rest[2:], or rest[2:qpos] when a '?' was found
UriHost(rest, qpos) ==
    IF qpos # -1 THEN Slice(rest, 2, qpos) ELSE SliceFrom(rest, 2)

parse_backend_uri(backend_uri) ==
    IF Find(backend_uri, ":") = -1 THEN UriError
    ELSE LET scheme == Split1(backend_uri, ":")[1]
             rest   == Split1(backend_uri, ":")[2]
             qpos   == Find(rest, "?")
         IN  IF ~StartsWith(rest, <<"/", "/">>) THEN UriError
             ELSE [exc    |-> "none",
                   scheme |-> scheme,
                   host   |-> StripTrailingSlash(UriHost(rest, qpos)),
                   params |-> UriParams(rest, qpos)]

\* if engine in BACKENDS: engine = 'django.core.cache.backends.%s' % BACKENDS[engine]
Canonical(engine) ==
    IF engine \in DOMAIN BACKENDS THEN BackendsPackage \o BACKENDS[engine] ELSE engine

(***************************************************************************)
(* The environment: the module loader, the settings and the calls made.    *)
(***************************************************************************)
P_locmem == BackendsPackage \o <<"l", "o", "c", "m", "e", "m">>

P_filebased == BackendsPackage \o <<"f", "i", "l", "e", "b", "a", "s", "e", "d">>

P_memcached == BackendsPackage \o <<"m", "e", "m", "c", "a", "c", "h", "e", "d">>

\* What importlib.import_module finds, and what the loaded object looks like
\* to get_cache: classType is isinstance(obj, types.ClassType), baseCache is
\* issubclass(obj, BaseCache), cacheClass is hasattr(obj, 'CacheClass'), close
\* is whether the instances it builds have a close method.  A path outside
\* the domain raises ImportError.
Modules ==
    (P_locmem    :> [classType |-> FALSE, baseCache |-> FALSE, cacheClass |-> TRUE,  close |-> FALSE]) @@
    (P_filebased :> [classType |-> FALSE, baseCache |-> FALSE, cacheClass |-> TRUE,  close |-> FALSE]) @@
    (P_memcached :> [classType |-> FALSE, baseCache |-> FALSE, cacheClass |-> TRUE,  close |-> TRUE]) @@
    (<<"p", "k", "g", ".", "A">>   :> [classType |-> TRUE,  baseCache |-> TRUE,  cacheClass |-> FALSE, close |-> FALSE]) @@
    (<<"p", "k", "g", ".", "B">>   :> [classType |-> TRUE,  baseCache |-> TRUE,  cacheClass |-> TRUE,  close |-> TRUE]) @@
    (<<"p", "k", "g", ".", "C">>   :> [classType |-> TRUE,  baseCache |-> FALSE, cacheClass |-> TRUE,  close |-> FALSE]) @@
    (<<"p", "k", "g", ".", "D">>   :> [classType |-> TRUE,  baseCache |-> FALSE, cacheClass |-> FALSE, close |-> FALSE]) @@
    (<<"p", "k", "g", ".", "E">>   :> [classType |-> FALSE, baseCache |-> FALSE, cacheClass |-> FALSE, close |-> FALSE])

\* settings.CACHE_VERSION, settings.CACHE_KEY_PREFIX, settings.CACHE_KEY_FUNCTION
CACHE_VERSION == <<"1">>

CACHE_KEY_PREFIX == <<"p">>

CACHE_KEY_FUNCTION == <<"f">>

A_a == <<"a">>

A_b == <<"b">>

EntryDefault == (K_ENGINE :> P_locmem) @@ (K_NAME :> <<"n">>)

EntryDefaultT == (K_ENGINE :> P_memcached) @@ (K_NAME :> <<"n">>) @@ (<<"T", "I", "M", "E", "O", "U", "T">> :> <<"3", "0">>)

EntryA == (K_ENGINE :> P_filebased) @@ (K_NAME :> <<"/", "t">>) @@ (K_VERSION :> <<"2">>)

EntryB == (K_ENGINE :> <<"p", "k", "g", ".", "A">>) @@ (K_KEY_PREFIX :> <<"q">>)

\* the (settings.CACHES, settings.CACHE_BACKEND) pairs the module is loaded under
InitialSettings ==
    { <<EmptyDict, <<"l", "o", "c", "m", "e", "m", ":", "/", "/">>>>,
      <<EmptyDict, <<"f", "i", "l", "e", ":", "/", "/", "/", "t", "?", "t", "i", "m", "e", "o", "u", "t", "=", "3", "0">>>>,
      <<EmptyDict, <<"m", "e", "m", "c", "a", "c", "h", "e", "d", ":", "/", "/", "h", ":", "1", "/", "?", "N", "A", "M", "E", "=", "o">>>>,
      <<EmptyDict, <<"l", "o", "c", "m", "e", "m">>>>,
      <<(DEFAULT_CACHE_ALIAS :> EntryDefault), <<"l", "o", "c", "m", "e", "m", ":", "/", "/">>>>,
      <<(DEFAULT_CACHE_ALIAS :> EntryDefault), <<"l", "o", "c", "m", "e", "m">>>>,
      <<(DEFAULT_CACHE_ALIAS :> EntryDefaultT) @@ (A_a :> EntryA) @@ (A_b :> EntryB), <<"l", "o", "c", "m", "e", "m", ":", "/", "/">>>>,
      <<(A_a :> EntryA), <<"l", "o", "c", "m", "e", "m", ":", "/", "/">>>>,
      <<(DEFAULT_CACHE_ALIAS :> ((K_ENGINE :> <<"n", "o", "s", "u", "c", "h">>) @@ (K_NAME :> <<"n">>))), <<"l", "o", "c", "m", "e", "m", ":", "/", "/">>>>,
      <<(DEFAULT_CACHE_ALIAS :> (K_NAME :> <<"n">>)), <<"l", "o", "c", "m", "e", "m", ":", "/", "/">>>> }

KwNone == EmptyDict

KwName == (K_NAME :> <<"o">>) @@ (<<"T", "I", "M", "E", "O", "U", "T">> :> <<"5">>)

KwTimeout == (<<"t", "i", "m", "e", "o", "u", "t">> :> <<"5">>)

\* get_cache(backend, **kwargs) calls that name an alias: made by every caller
ConfCalls ==
    { <<DEFAULT_CACHE_ALIAS, KwNone>>, <<A_a, KwNone>>, <<A_b, KwNone>>, <<A_b, KwName>> }

\* all the get_cache(backend, **kwargs) calls made by a caller running alone
GetCacheCalls ==
    ConfCalls \cup
    { <<<<"p", "k", "g", ".", "A">>, KwNone>>, <<<<"p", "k", "g", ".", "A">>, KwName>>, <<<<"p", "k", "g", ".", "B">>, KwNone>>,
      <<<<"p", "k", "g", ".", "C">>, KwTimeout>>, <<<<"p", "k", "g", ".", "D">>, KwNone>>, <<<<"p", "k", "g", ".", "E">>, KwNone>>,
      <<<<"n", "o", "s", "u", "c", "h">>, KwName>>,
      <<<<"l", "o", "c", "m", "e", "m", ":", "/", "/">>, KwNone>>, <<<<"f", "i", "l", "e", ":", "/", "/", "/", "t", "?", "t", "i", "m", "e", "o", "u", "t", "=", "3", "0">>, KwTimeout>>,
      <<<<"n", "o", "s", "u", "c", "h", ":", "/", "/", "h">>, KwNone>>, <<<<"x", ":", "/", ":", "/", "/">>, KwNone>> }

Callers == 1..NumCallers

(***************************************************************************)
(* Names bound in the module's namespace by lines 17-34 and 40-50.         *)
(***************************************************************************)
ModuleGlobals ==
    { "types", "settings", "signals", "InvalidCacheBackendError", "CacheKeyWarning",
      "BaseCache", "importlib", "parse_qsl", "BACKENDS", "DEFAULT_CACHE_ALIAS",
      "parse_backend_uri" }

\* raise <name>(...): evaluating an unbound global name raises NameError
RaiseNamed(name) == IF name \in ModuleGlobals THEN name ELSE "NameError"

(***************************************************************************)
(* parse_backend_conf and get_cache, statement by statement.               *)
(***************************************************************************)
NoInstance == [via |-> "none", engine |-> EmptyStr, name |-> EmptyStr,
               params |-> EmptyDict, close |-> FALSE]

\* conf = settings.CACHES.get(backend, None); conf is not None
ConfFound(table, backend) == backend \in DOMAIN table

\* (not the code: ENGINE is read and left in place)
PopEngineCopy(table, alias) == table

\* engine = conf.pop('ENGINE'): the table afterwards
PopEngineTable(table, alias) == [table EXCEPT ![alias] = DictWithout(@, K_ENGINE)]

\* name = conf.pop('NAME', ''): the value popped
PopNameValue(entry) == IF K_NAME \in DOMAIN entry THEN entry[K_NAME] ELSE EmptyStr

\* (not the code: resolving a named cache removes NAME from every named cache)
PopNameSpill(table, alias) ==
    [x \in DOMAIN table |->
        IF x = alias \/ (alias # DEFAULT_CACHE_ALIAS /\ x # DEFAULT_CACHE_ALIAS)
        THEN DictWithout(table[x], K_NAME) ELSE table[x]]

\* (not the code: NAME is read and left in place)
PopNameKeep(table, alias) == table

\* name = conf.pop('NAME', ''): the table afterwards
PopNameTable(table, alias) == [table EXCEPT ![alias] = DictWithout(@, K_NAME)]

\* (not the code: the fallback with engine and name swapped)
RawPathSwapped(backend, kwargs) ==
    IF backend \notin DOMAIN Modules
    THEN [exc |-> "InvalidCacheBackendError", engine |-> EmptyStr, name |-> EmptyStr,
          params |-> EmptyDict]
    ELSE [exc |-> "none", engine |-> PopNameValue(kwargs), name |-> backend,
          params |-> DictWithout(kwargs, K_NAME)]

\* lines 109-115: the raw-path fallback of parse_backend_conf
RawPath(backend, kwargs) ==
    IF backend \notin DOMAIN Modules
    THEN [exc |-> "InvalidCacheBackendError", engine |-> EmptyStr, name |-> EmptyStr,
          params |-> EmptyDict]
    ELSE [exc |-> "none", engine |-> backend, name |-> PopNameValue(kwargs),
          params |-> DictWithout(kwargs, K_NAME)]

\* lines 102-106 run without interruption on one entry
ConfAlone(entry) ==
    IF K_ENGINE \notin DOMAIN entry
    THEN [exc |-> "KeyError", engine |-> EmptyStr, name |-> EmptyStr, params |-> EmptyDict]
    ELSE [exc |-> "none", engine |-> entry[K_ENGINE], name |-> PopNameValue(entry),
          params |-> DictWithout(DictWithout(entry, K_ENGINE), K_NAME)]

\* lines 141-144: the URI branch of get_cache
UriBranch(backend, kwargs) ==
    LET r == parse_backend_uri(backend)
    IN  IF r.exc # "none"
        THEN [exc |-> r.exc, engine |-> EmptyStr, name |-> EmptyStr, params |-> EmptyDict]
        ELSE [exc |-> "none", engine |-> Canonical(r.scheme), name |-> r.host,
              params |-> DictUpdate(r.params, kwargs)]

\* (not the code: the CacheClass attribute is probed first)
ShapeCacheClassFirst(shape) ==
    IF shape.cacheClass THEN "CacheClass"
    ELSE IF shape.classType /\ shape.baseCache THEN "direct"
    ELSE "AttributeError"

\* lines 149-151: which constructor get_cache calls on the loaded object
ShapeDispatch(shape) ==
    IF shape.classType /\ shape.baseCache THEN "direct"
    ELSE IF shape.cacheClass THEN "CacheClass"
    ELSE "AttributeError"

\* lines 148-151: import the engine and build the instance
Instantiate(engine, name, params) ==
    IF engine \notin DOMAIN Modules THEN [exc |-> "ImportError", ret |-> NoInstance]
    ELSE IF ShapeDispatch(Modules[engine]) = "AttributeError"
    THEN [exc |-> "AttributeError", ret |-> NoInstance]
    ELSE [exc |-> "none",
          ret |-> [via |-> ShapeDispatch(Modules[engine]), engine |-> engine, name |-> name,
                   params |-> params, close |-> Modules[engine].close]]

\* get_cache(backend, **kwargs), lines 140-151, run without interruption:
\* the exception or instance, the table afterwards, and whether line 148 ran
GetCacheAlone(table, backend, kwargs) ==
    LET viaUri  == Contains(backend, <<":", "/", "/">>)
        viaConf == ~viaUri /\ ConfFound(table, backend)
        r == IF viaUri THEN UriBranch(backend, kwargs)
             ELSE IF viaConf THEN ConfAlone(table[backend])
             ELSE RawPath(backend, kwargs)
        made == Instantiate(r.engine, r.name, r.params)
    IN  [exc    |-> IF r.exc # "none" THEN r.exc ELSE made.exc,
         ret    |-> IF r.exc # "none" THEN NoInstance ELSE made.ret,
         table  |-> IF viaConf /\ r.exc = "none"
                    THEN PopNameTable(PopEngineTable(table, backend), backend)
                    ELSE table,
         loaded |-> r.exc = "none"]

(***************************************************************************)
(* Module-level code, lines 74-94 and 153-159.                             *)
(***************************************************************************)
\* (not the code: the bridge runs whatever the table holds)
BridgeAlways(table) == TRUE

\* if not settings.CACHES
BridgeNeeded(table) == table = EmptyDict

\* lines 80-90: the synthesized entry
BridgeDefaults(r) ==
    DictUpdate((K_ENGINE :> Canonical(r.scheme)) @@ (K_NAME :> r.host) @@
               (K_VERSION :> CACHE_VERSION) @@ (K_KEY_PREFIX :> CACHE_KEY_PREFIX) @@
               (K_KEY_FUNC :> CACHE_KEY_FUNCTION),
               r.params)

\* lines 74-91
LegacyBridge ==
    /\ mpc = "bridge"
    /\ IF BridgeNeeded(CACHES)
       THEN /\ bridgeRuns' = bridgeRuns + 1
            /\ legacyReads' = legacyReads + 1
            /\ IF parse_backend_uri(CACHE_BACKEND).exc # "none"
               THEN /\ mpc' = "failed"
                    /\ merr' = parse_backend_uri(CACHE_BACKEND).exc
                    /\ UNCHANGED CACHES
               ELSE /\ mpc' = "check"
                    /\ CACHES' = DictSet(CACHES, DEFAULT_CACHE_ALIAS,
                                         BridgeDefaults(parse_backend_uri(CACHE_BACKEND)))
                    /\ UNCHANGED merr
       ELSE /\ mpc' = "check"
            /\ UNCHANGED <<CACHES, merr, bridgeRuns, legacyReads>>
    /\ UNCHANGED <<CACHES0, CACHE_BACKEND, cache, receivers, loads, th, uri, parsed>>

\* lines 93-94
CheckDefault ==
    /\ mpc = "check"
    /\ IF DEFAULT_CACHE_ALIAS \notin DOMAIN CACHES
       THEN mpc' = "failed" /\ merr' = RaiseNamed("ImproperlyConfigured")
       ELSE mpc' = "singleton" /\ UNCHANGED merr
    /\ UNCHANGED <<CACHES, CACHES0, CACHE_BACKEND, cache, receivers, bridgeRuns,
                   legacyReads, loads, th, uri, parsed>>

\* line 153: cache = get_cache(DEFAULT_CACHE_ALIAS), run by the importing thread
MakeSingleton ==
    /\ mpc = "singleton"
    /\ LET g == GetCacheAlone(CACHES, DEFAULT_CACHE_ALIAS, EmptyDict)
       IN  /\ CACHES' = g.table
           /\ loads' = g.loaded
           /\ IF g.exc # "none"
              THEN mpc' = "failed" /\ merr' = g.exc /\ UNCHANGED cache
              ELSE mpc' = "connect" /\ cache' = g.ret /\ UNCHANGED merr
    /\ UNCHANGED <<CACHES0, CACHE_BACKEND, receivers, bridgeRuns, legacyReads, th, uri, parsed>>

\* lines 158-159
ConnectClose ==
    /\ mpc = "connect"
    /\ mpc' = "ready"
    /\ receivers' = IF cache.close THEN receivers \cup {"cache.close"} ELSE receivers
    /\ UNCHANGED <<CACHES, CACHES0, CACHE_BACKEND, merr, cache, bridgeRuns, legacyReads,
                   loads, th, uri, parsed>>

(***************************************************************************)
(* Callers of get_cache after the module is loaded.  A caller's frame      *)
(* holds the locals of get_cache / parse_backend_conf; entry0, has0, clash *)
(* and mixed are history: the entry found under "backend" when the call    *)
(* started, and whether another caller was inside parse_backend_conf for   *)
(* the same identifier (clash) or for another alias of the table (mixed)   *)
(* while this one was.                                                     *)
(***************************************************************************)
IdleFrame ==
    [pc |-> "idle", backend |-> EmptyStr, kwargs |-> EmptyDict,
     engine |-> EmptyStr, name |-> EmptyStr, params |-> EmptyDict,
     exc |-> "none", ret |-> NoInstance,
     has0 |-> FALSE, entry0 |-> EmptyDict, clash |-> FALSE, mixed |-> FALSE]

InsideConf == {"get", "pop_engine", "pop_name", "import_backend"}

Inside(t) == th[t].pc \in InsideConf

\* the frames of the callers already inside, once t enters with "backend"
Noted(t, backend) ==
    [u \in Callers |->
        IF u # t /\ Inside(u)
        THEN [th[u] EXCEPT !.clash = @ \/ th[u].backend = backend,
                           !.mixed = @ \/ (th[u].backend # backend /\ backend \in DOMAIN CACHES)]
        ELSE th[u]]

\* line 140: get_cache(backend, **kwargs) is called
Call(t, backend, kwargs) ==
    /\ mpc = "ready"
    /\ th[t].pc = "idle"
    /\ IF Contains(backend, <<":", "/", "/">>)
       THEN LET r == UriBranch(backend, kwargs)
            IN  th' = [th EXCEPT ![t] =
                          [IdleFrame EXCEPT !.backend = backend, !.kwargs = kwargs,
                                            !.pc = IF r.exc = "none" THEN "load" ELSE "done",
                                            !.exc = r.exc, !.engine = r.engine,
                                            !.name = r.name, !.params = r.params]]
       ELSE th' = [Noted(t, backend) EXCEPT ![t] =
                      [IdleFrame EXCEPT
                          !.backend = backend, !.kwargs = kwargs, !.pc = "get",
                          !.has0 = backend \in DOMAIN CACHES,
                          !.entry0 = IF backend \in DOMAIN CACHES THEN CACHES[backend]
                                     ELSE EmptyDict,
                          !.clash = \E u \in Callers \ {t} :
                                        Inside(u) /\ th[u].backend = backend,
                          !.mixed = \E u \in Callers \ {t} :
                                        /\ Inside(u) /\ th[u].backend # backend
                                        /\ th[u].backend \in DOMAIN CACHES]]
    /\ UNCHANGED <<CACHES, CACHES0, CACHE_BACKEND, mpc, merr, cache, bridgeRuns,
                   legacyReads, receivers, loads, uri, parsed>>

\* lines 102-103
ConfGet(t) ==
    /\ th[t].pc = "get"
    /\ th' = [th EXCEPT ![t].pc = IF ConfFound(CACHES, th[t].backend)
                                  THEN "pop_engine" ELSE "import_backend"]
    /\ UNCHANGED <<CACHES, CACHES0, CACHE_BACKEND, mpc, merr, cache, bridgeRuns,
                   legacyReads, receivers, loads, uri, parsed>>

\* line 104
PopEngine(t) ==
    /\ th[t].pc = "pop_engine"
    /\ IF K_ENGINE \in DOMAIN CACHES[th[t].backend]
       THEN /\ th' = [th EXCEPT ![t].pc = "pop_name",
                                ![t].engine = CACHES[th[t].backend][K_ENGINE]]
            /\ CACHES' = PopEngineTable(CACHES, th[t].backend)
       ELSE /\ th' = [th EXCEPT ![t].pc = "done", ![t].exc = "KeyError"]
            /\ UNCHANGED CACHES
    /\ UNCHANGED <<CACHES0, CACHE_BACKEND, mpc, merr, cache, bridgeRuns,
                   legacyReads, receivers, loads, uri, parsed>>

\* lines 105-106: the returned options are the entry itself
PopName(t) ==
    /\ th[t].pc = "pop_name"
    /\ CACHES' = PopNameTable(CACHES, th[t].backend)
    /\ th' = [th EXCEPT ![t].pc = "load",
                        ![t].name = PopNameValue(CACHES[th[t].backend]),
                        ![t].params = CACHES'[th[t].backend]]
    /\ UNCHANGED <<CACHES0, CACHE_BACKEND, mpc, merr, cache, bridgeRuns,
                   legacyReads, receivers, loads, uri, parsed>>

\* lines 109-115
ImportBackend(t) ==
    /\ th[t].pc = "import_backend"
    /\ LET r == RawPath(th[t].backend, th[t].kwargs)
       IN  th' = [th EXCEPT ![t].pc = IF r.exc = "none" THEN "load" ELSE "done",
                            ![t].exc = r.exc, ![t].engine = r.engine,
                            ![t].name = r.name, ![t].params = r.params]
    /\ UNCHANGED <<CACHES, CACHES0, CACHE_BACKEND, mpc, merr, cache, bridgeRuns,
                   legacyReads, receivers, loads, uri, parsed>>

\* lines 148-151
Load(t) ==
    /\ th[t].pc = "load"
    /\ LET made == Instantiate(th[t].engine, th[t].name, th[t].params)
       IN  th' = [th EXCEPT ![t].pc = "done", ![t].exc = made.exc, ![t].ret = made.ret]
    /\ loads' = TRUE
    /\ UNCHANGED <<CACHES, CACHES0, CACHE_BACKEND, mpc, merr, cache, bridgeRuns,
                   legacyReads, receivers, uri, parsed>>

\* the call returns or raises to its caller
Return(t) ==
    /\ th[t].pc = "done"
    /\ th' = [th EXCEPT ![t] = IdleFrame]
    /\ UNCHANGED <<CACHES, CACHES0, CACHE_BACKEND, mpc, merr, cache, bridgeRuns,
                   legacyReads, receivers, loads, uri, parsed>>

NoParse == [exc |-> "pending", scheme |-> EmptyStr, host |-> EmptyStr, params |-> EmptyDict]

Init ==
    /\ \E s \in InitialSettings : CACHES = s[1] /\ CACHES0 = s[1] /\ CACHE_BACKEND = s[2]
    /\ mpc = "bridge"
    /\ merr = "none"
    /\ cache = NoInstance
    /\ bridgeRuns = 0
    /\ legacyReads = 0
    /\ receivers = {}
    /\ loads = FALSE
    /\ th = [t \in Callers |-> IdleFrame]
    /\ uri = EmptyStr
    /\ parsed = NoParse

Next ==
    \/ LegacyBridge
    \/ CheckDefault
    \/ MakeSingleton
    \/ ConnectClose
    \/ \E t \in Callers : \E c \in ConfCalls : Call(t, c[1], c[2])
    \/ \E t \in Callers : ConfGet(t)
    \/ \E t \in Callers : PopEngine(t)
    \/ \E t \in Callers : PopName(t)
    \/ \E t \in Callers : ImportBackend(t)
    \/ \E t \in Callers : Load(t)
    \/ \E t \in Callers : Return(t)

Spec == Init /\ [][Next]_vars

\* one caller, running alone, making every kind of call
NextOne ==
    \/ LegacyBridge
    \/ CheckDefault
    \/ MakeSingleton
    \/ ConnectClose
    \/ \E c \in GetCacheCalls : Call(1, c[1], c[2])
    \/ ConfGet(1)
    \/ PopEngine(1)
    \/ PopName(1)
    \/ ImportBackend(1)
    \/ Load(1)
    \/ Return(1)

SpecOne == Init /\ [][NextOne]_vars

(***************************************************************************)
(* parse_backend_uri on its own: every string of a bounded input set is    *)
(* parsed once.                                                            *)
(***************************************************************************)
\* every string over alphabet of length at most n
StringsUpTo(alphabet, n) == UNION {[1..m -> alphabet] : m \in 0..n}

\* everything up to and including the "//": all short strings over k : /
UriHeads == StringsUpTo({"k", ":", "/"}, MaxHead)

UriPrefixes == {<<"k", ":", "/", "/">>, <<":", "/", "/">>, <<"k", "?", ":", "/", "/">>}

UriHosts == {EmptyStr, <<"v">>, <<"/">>, <<"v", "/">>, <<"v", "/", "/">>, <<"/", "v">>, <<"v", ":", "2", "/">>}

UriFields ==
    {EmptyStr, <<"k">>, <<"k", "=">>, <<"k", "=", "v">>, <<"k", "=", "k">>, <<"=", "v">>, <<"v", "=", "k", "=", "v">>, <<"v", "=", "+", "%", "2", "6", "%", "2">>, <<"%", "6", "2", "=", "+">>}

\* up to n fields joined by '&' or ';'
RECURSIVE UriQueries(_)
UriQueries(n) ==
    IF n = 0 THEN {}
    ELSE UriFields \cup
         {q \o <<sep>> \o f : q \in UriQueries(n - 1), sep \in {"&", ";"}, f \in UriFields}

UriInputs ==
    UriHeads \cup {h \o <<"v">> : h \in UriHeads} \cup
    {p \o h : p \in UriPrefixes, h \in UriHosts} \cup
    {p \o h \o <<"?">> \o q : p \in UriPrefixes, h \in UriHosts, q \in UriQueries(MaxSegs)} \cup
    {<<"m", "e", "m", "c", "a", "c", "h", "e", "d", ":", "/", "/", "1", "2", "7", ".", "0", ".", "0", ".", "1", ":", "1", "1", "2", "1", "1", "/">>, <<"f", "i", "l", "e", ":", "/", "/", "/", "v", "a", "r", "/", "t", "m", "p", "/", "c", "a", "c", "h", "e", "?", "t", "i", "m", "e", "o", "u", "t", "=", "3", "0">>,
     <<"b", "a", "d", "s", "c", "h", "e", "m", "e", "-", "n", "o", "-", "c", "o", "l", "o", "n", "-", "s", "l", "a", "s", "h">>}

InitURI ==
    /\ CACHES = EmptyDict /\ CACHES0 = EmptyDict /\ CACHE_BACKEND = <<"l", "o", "c", "m", "e", "m", ":", "/", "/">>
    /\ mpc = "bridge"
    /\ merr = "none"
    /\ cache = NoInstance
    /\ bridgeRuns = 0
    /\ legacyReads = 0
    /\ receivers = {}
    /\ loads = FALSE
    /\ th = [t \in Callers |-> IdleFrame]
    /\ uri \in UriInputs
    /\ parsed = NoParse

ParseURI ==
    /\ parsed.exc = "pending"
    /\ parsed' = parse_backend_uri(uri)
    /\ UNCHANGED <<CACHES, CACHES0, CACHE_BACKEND, mpc, merr, cache, bridgeRuns,
                   legacyReads, receivers, loads, th, uri>>

NextURI == ParseURI

SpecURI == InitURI /\ [][NextURI]_vars

(***************************************************************************)
(* The URI grammar, stated on positions of the input string.               *)
(***************************************************************************)
\* positions of character c in s
Positions(s, c) == {i \in 1..Len(s) : s[i] = c}

Least(S) == CHOOSE i \in S : \A j \in S : i <= j

\* text after the first ':'
AfterColon(u) == SubSeq(u, Least(Positions(u, ":")) + 1, Len(u))

WellFormed(u) ==
    /\ Positions(u, ":") # {}
    /\ Len(AfterColon(u)) >= 2
    /\ AfterColon(u)[1] = "/" /\ AfterColon(u)[2] = "/"

\* text after the "//"
Body(u) == SubSeq(AfterColon(u), 3, Len(AfterColon(u)))

HasQuery(u) == Positions(Body(u), "?") # {}

QueryOf(u) == SubSeq(Body(u), Least(Positions(Body(u), "?")) + 1, Len(Body(u)))

GrammarScheme(u) == SubSeq(u, 1, Least(Positions(u, ":")) - 1)

GrammarHost(u) ==
    LET raw == IF HasQuery(u) THEN SubSeq(Body(u), 1, Least(Positions(Body(u), "?")) - 1)
               ELSE Body(u)
    IN  IF Len(raw) > 0 /\ raw[Len(raw)] = "/" THEN SubSeq(raw, 1, Len(raw) - 1) ELSE raw

\* the fields of q: the maximal stretches between separators, as <<from, to>>
FieldsOf(q, seps) ==
    LET cuts == {0, Len(q) + 1} \cup {i \in 1..Len(q) : q[i] \in seps}
        next == {p \in cuts \X cuts :
                    p[1] < p[2] /\ ~\E d \in cuts : p[1] < d /\ d < p[2]}
    IN  {<<p[1] + 1, p[2] - 1>> : p \in next}

FieldKey(q, f) == SubSeq(q, f[1], Least({i \in f[1]..f[2] : q[i] = "="}) - 1)

FieldValue(q, f) == SubSeq(q, Least({i \in f[1]..f[2] : q[i] = "="}) + 1, f[2])

IsPair(q, f) == \E i \in f[1]..f[2] : q[i] = "="

\* the key=value pairs among the '&'-separated fields, read literally
LiteralParams(q) ==
    LET pairs == {f \in FieldsOf(q, {"&"}) : IsPair(q, f)}
        keys  == {FieldKey(q, f) : f \in pairs}
    IN  [k \in keys |->
            LET mine == {f \in pairs : FieldKey(q, f) = k}
            IN  FieldValue(q, CHOOSE f \in mine : \A g \in mine : g[1] <= f[1])]

\* query-string decoding of a key or a value: '+' is a space, %XX is a character
QsDecode(s) == unquote(Replace(s, "+", " "))

\* the pairs of standard query-string decoding: fields are separated by '&'
\* or ';', a field with no '=' or with an empty value is dropped, keys and
\* values are decoded
DecodedParams(q) ==
    LET pairs == {f \in FieldsOf(q, {"&", ";"}) : IsPair(q, f) /\ FieldValue(q, f) # EmptyStr}
        keys  == {QsDecode(FieldKey(q, f)) : f \in pairs}
    IN  [k \in keys |->
            LET mine == {f \in pairs : QsDecode(FieldKey(q, f)) = k}
            IN  QsDecode(FieldValue(q, CHOOSE f \in mine : \A g \in mine : g[1] <= f[1]))]

ParsedOnce == parsed.exc # "pending"

(***************************************************************************)
(* Properties.                                                             *)
(***************************************************************************)
\* the frame of caller t holds the outcome of lines 102-106 on an alias
Resolved(t) == th[t].has0 /\ th[t].pc \in {"load", "done"}

\* caller t took ENGINE out of its entry
GotEngine(t) ==
    th[t].has0 /\ th[t].pc \in {"pop_name", "load", "done"} /\ th[t].exc # "KeyError"

LoadedModule == mpc \in {"connect", "ready"}

\* C1: from an empty table and CACHE_BACKEND = "locmem://", loading the module
\* synthesizes exactly one entry, under "default", the bridge never runs a
\* second time, and every later resolution of "default" (the singleton's and
\* every get_cache('default') after it) succeeds.
C1_RunOnceAndResolvable ==
    (CACHES0 = EmptyDict /\ CACHE_BACKEND = <<"l", "o", "c", "m", "e", "m", ":", "/", "/">>) =>
        /\ mpc # "failed"
        /\ mpc # "bridge" => bridgeRuns = 1 /\ DOMAIN CACHES = {DEFAULT_CACHE_ALIAS}
        /\ \A t \in Callers :
              (th[t].backend = DEFAULT_CACHE_ALIAS /\ th[t].pc = "done") => th[t].exc = "none"

\* C2: the bridge runs at most once, before any resolution, and only on an
\* empty table; when the table starts with a "default" entry holding ENGINE,
\* the bridge never runs, the legacy settings are never read, no entry is added
\* or overwritten, and resolving "default" returns that ENGINE.
C2_BridgeOnlyOnEmptyTable ==
    /\ bridgeRuns <= 1
    /\ bridgeRuns = 1 => CACHES0 = EmptyDict
    /\ (loads \/ cache # NoInstance \/ \E t \in Callers : th[t].pc # "idle") => mpc # "bridge"
    /\ (DEFAULT_CACHE_ALIAS \in DOMAIN CACHES0 /\ K_ENGINE \in DOMAIN CACHES0[DEFAULT_CACHE_ALIAS]) =>
          /\ bridgeRuns = 0
          /\ legacyReads = 0
          /\ DOMAIN CACHES = DOMAIN CACHES0
          /\ \A k \in DOMAIN CACHES[DEFAULT_CACHE_ALIAS] :
                /\ k \in DOMAIN CACHES0[DEFAULT_CACHE_ALIAS]
                /\ CACHES[DEFAULT_CACHE_ALIAS][k] = CACHES0[DEFAULT_CACHE_ALIAS][k]
          /\ LoadedModule => cache.engine = CACHES0[DEFAULT_CACHE_ALIAS][K_ENGINE]
          /\ mpc = "failed" => merr \in {"ImportError", "AttributeError"}

\* C2 witness: a module loaded over a table that had "default", with a legacy
\* setting that would not even parse
C2_Witness ==
    /\ mpc = "ready"
    /\ DEFAULT_CACHE_ALIAS \in DOMAIN CACHES0
    /\ CACHE_BACKEND = <<"l", "o", "c", "m", "e", "m">>
    /\ cache.engine = P_locmem
    /\ bridgeRuns = 0

\* C3: once the bridge step is passed the table holds "default", and a table
\* left without "default" makes the module fail with ImproperlyConfigured
\* before anything is resolved, instantiated or assigned to "cache".
C3_MissingDefaultError ==
    /\ mpc \in {"singleton", "connect", "ready"} => DEFAULT_CACHE_ALIAS \in DOMAIN CACHES
    /\ (mpc = "failed" /\ CACHES0 # EmptyDict /\ DEFAULT_CACHE_ALIAS \notin DOMAIN CACHES) =>
          /\ merr = "ImproperlyConfigured"
          /\ ~loads
          /\ cache = NoInstance

\* C4 (state part): a resolution of an alias whose entry holds ENGINE, not
\* overlapped by another resolution of the same alias, returns the entry's
\* ENGINE, its NAME or '', and the entry's other keys; the entry is left
\* holding exactly those other keys.
C4_DestructiveRead ==
    /\ \A t \in Callers :
          (Resolved(t) /\ ~th[t].clash /\ K_ENGINE \in DOMAIN th[t].entry0) =>
              /\ th[t].exc # "KeyError"
              /\ th[t].engine = th[t].entry0[K_ENGINE]
              /\ th[t].name = IF K_NAME \in DOMAIN th[t].entry0
                              THEN th[t].entry0[K_NAME] ELSE EmptyStr
              /\ th[t].params = [k \in DOMAIN th[t].entry0 \ {K_ENGINE, K_NAME} |->
                                    th[t].entry0[k]]
              /\ th[t].backend \in DOMAIN CACHES
              /\ CACHES[th[t].backend] = th[t].params
    /\ (LoadedModule /\ CACHES0 # EmptyDict) =>
          /\ cache.name = IF K_NAME \in DOMAIN CACHES0[DEFAULT_CACHE_ALIAS]
                          THEN CACHES0[DEFAULT_CACHE_ALIAS][K_NAME] ELSE EmptyStr
          /\ cache.params = [k \in DOMAIN CACHES0[DEFAULT_CACHE_ALIAS] \ {K_ENGINE, K_NAME} |->
                                CACHES0[DEFAULT_CACHE_ALIAS][k]]
          /\ CACHES[DEFAULT_CACHE_ALIAS] = cache.params

\* C4 (step part): a step of line 104 or 105 removes at most ENGINE and NAME
\* from the entry of the alias being resolved, and no step of a call adds or
\* drops an alias or touches any other entry.
C4_OnlyOwnEntry ==
    mpc = "ready" =>
        /\ DOMAIN CACHES' = DOMAIN CACHES
        /\ \A x \in DOMAIN CACHES :
              CACHES'[x] # CACHES[x] =>
                  /\ \E t \in Callers : /\ th[t].backend = x
                                        /\ th[t].pc \in {"pop_engine", "pop_name"}
                                        /\ th'[t].pc # th[t].pc
                  /\ DOMAIN CACHES[x] \ {K_ENGINE, K_NAME} \subseteq DOMAIN CACHES'[x]
                  /\ \A k \in DOMAIN CACHES'[x] : k \in DOMAIN CACHES[x] /\ CACHES'[x][k] = CACHES[x][k]

\* C4: resolving an alias present in the table returns (ENGINE, NAME or '',
\* the remaining keys) and is a destructive read of exactly that entry.
C4_ResolveConsumesEntry == []C4_DestructiveRead /\ [][C4_OnlyOwnEntry]_vars

\* C4 witness: an entry without NAME was resolved (name is ''), its other key
\* was handed on, and another alias's entry is still whole
C4_Witness ==
    \E t \in Callers :
        /\ Resolved(t) /\ ~th[t].clash
        /\ th[t].backend = A_b
        /\ th[t].entry0 = EntryB
        /\ th[t].name = EmptyStr
        /\ th[t].params = (K_KEY_PREFIX :> <<"q">>)
        /\ CACHES[A_b] = (K_KEY_PREFIX :> <<"q">>)
        /\ CACHES[A_a] = EntryA

\* C5 (state part): a resolution that ran while resolutions of other aliases
\* were running, and none of its own alias, ends as it would have ended alone.
C5_SameAsAlone ==
    \A t \in Callers :
        (Resolved(t) /\ th[t].mixed /\ ~th[t].clash) =>
            /\ (th[t].exc = "KeyError") = (ConfAlone(th[t].entry0).exc = "KeyError")
            /\ th[t].exc # "KeyError" =>
                  /\ th[t].engine = ConfAlone(th[t].entry0).engine
                  /\ th[t].name = ConfAlone(th[t].entry0).name
                  /\ th[t].params = ConfAlone(th[t].entry0).params

\* C5 (step part): a step of one caller's resolution leaves the entries of
\* all aliases but its own as they were.
C5_StepsKeepOtherEntries ==
    \A t \in Callers :
        (Inside(t) /\ th'[t].pc # th[t].pc) =>
            \A x \in DOMAIN CACHES \ {th[t].backend} : x \in DOMAIN CACHES' /\ CACHES'[x] = CACHES[x]

\* C5: two concurrent resolutions of distinct aliases each return what they
\* would return alone and each modify only their own entry.
C5_DistinctAliasesIsolated == []C5_SameAsAlone /\ [][C5_StepsKeepOtherEntries]_vars

\* C5 witness: two overlapping resolutions of two different aliases, both
\* finished with an engine
C5_Witness ==
    \E t, u \in Callers :
        /\ t # u
        /\ Resolved(t) /\ Resolved(u)
        /\ th[t].mixed /\ th[u].mixed /\ ~th[t].clash /\ ~th[u].clash
        /\ th[t].backend = A_a /\ th[u].backend = A_b
        /\ th[t].engine = P_filebased /\ th[u].engine = <<"p", "k", "g", ".", "A">>
        /\ th[t].name = <<"/", "t">>

\* C8 (state part): an identifier without '://' that is no alias of the table
\* resolves, when loadable, to (itself, NAME of the overrides or '', the other
\* overrides) and otherwise fails with InvalidCacheBackendError; the fallback
\* is entered only when the lookup finds no entry.
C8_RawPathResult ==
    \A t \in Callers :
        /\ th[t].pc = "import_backend" =>
              /\ ~Contains(th[t].backend, <<":", "/", "/">>)
              /\ th[t].backend \notin DOMAIN CACHES
              /\ ~th[t].has0
        /\ (th[t].pc \in {"load", "done"} /\ ~th[t].has0 /\ ~Contains(th[t].backend, <<":", "/", "/">>)) =>
              IF th[t].backend \in DOMAIN Modules
              THEN /\ th[t].exc # "InvalidCacheBackendError"
                   /\ th[t].engine = th[t].backend
                   /\ th[t].name = IF K_NAME \in DOMAIN th[t].kwargs
                                   THEN th[t].kwargs[K_NAME] ELSE EmptyStr
                   /\ th[t].params = [k \in DOMAIN th[t].kwargs \ {K_NAME} |-> th[t].kwargs[k]]
              ELSE /\ th[t].pc = "done"
                   /\ th[t].exc = "InvalidCacheBackendError"
                   /\ th[t].ret = NoInstance

\* C8 (step part): the fallback leaves the configuration table unchanged.
C8_FallbackKeepsTable ==
    \A t \in Callers :
        (th[t].pc = "import_backend" /\ th'[t].pc # th[t].pc) => CACHES' = CACHES

\* C8: the raw-path fallback of the resolver.
C8_RawPathFallback == []C8_RawPathResult /\ [][C8_FallbackKeepsTable]_vars

\* C8 witness: a loadable dotted path resolved with overrides
C8_Witness ==
    \E t \in Callers :
        /\ th[t].pc = "load" /\ ~th[t].has0
        /\ th[t].backend = <<"p", "k", "g", ".", "A">> /\ th[t].kwargs = KwName
        /\ th[t].engine = <<"p", "k", "g", ".", "A">> /\ th[t].name = <<"o">>
        /\ th[t].params = (<<"T", "I", "M", "E", "O", "U", "T">> :> <<"5">>)

C10_SameAliasRace ==
    \A t, u \in Callers :
        (/\ t # u
         /\ th[t].has0 /\ th[u].has0
         /\ th[t].backend = th[u].backend
         /\ K_ENGINE \in DOMAIN th[t].entry0 /\ K_ENGINE \in DOMAIN th[u].entry0) =>
            /\ th[t].entry0 = th[u].entry0
            /\ ~(GotEngine(t) /\ GotEngine(u))
            /\ (GotEngine(t) /\ Resolved(t)) =>
                  /\ th[t].engine = th[t].entry0[K_ENGINE]
                  /\ th[t].name = IF K_NAME \in DOMAIN th[t].entry0
                                  THEN th[t].entry0[K_NAME] ELSE EmptyStr
            /\ (GotEngine(t) /\ th[u].pc = "done") =>
                  th[u].exc = "KeyError" /\ th[u].ret = NoInstance
            /\ th[u].exc = "KeyError" => K_ENGINE \notin DOMAIN CACHES[th[u].backend]

\* C10 witness: one of two racing resolutions of alias "a" holds ENGINE and
\* NAME, the other has failed
C10_Witness ==
    \E t, u \in Callers :
        /\ t # u
        /\ th[t].backend = A_a /\ th[u].backend = A_a
        /\ th[t].entry0 = EntryA /\ th[u].entry0 = EntryA
        /\ th[t].pc = "load" /\ th[t].engine = P_filebased /\ th[t].name = <<"/", "t">>
        /\ th[u].pc = "done" /\ th[u].exc = "KeyError"

\* C6 (as stated): parse_backend_uri fails exactly on strings without ':' or
\* without '//' after the first ':', and otherwise returns the scheme, the
\* host less one trailing '/', and the '&'-separated key=value pairs read
\* literally, the last duplicate winning.
C6_LiteralGrammar ==
    ParsedOnce =>
        IF ~WellFormed(uri) THEN parsed.exc = "InvalidCacheBackendError"
        ELSE /\ parsed.exc = "none"
             /\ parsed.scheme = GrammarScheme(uri)
             /\ parsed.host = GrammarHost(uri)
             /\ parsed.params = IF HasQuery(uri) THEN LiteralParams(QueryOf(uri)) ELSE EmptyDict

\* C6 (amended): as above, with params the pairs of standard query-string
\* decoding: fields separated by '&' or ';', fields with no '=' or an empty
\* value dropped, '+' and %XX decoded in keys and values, last duplicate wins.
C6_DecodedGrammar ==
    ParsedOnce =>
        IF ~WellFormed(uri) THEN parsed.exc = "InvalidCacheBackendError"
        ELSE /\ parsed.exc = "none"
             /\ parsed.scheme = GrammarScheme(uri)
             /\ parsed.host = GrammarHost(uri)
             /\ parsed.params = IF HasQuery(uri) THEN DecodedParams(QueryOf(uri)) ELSE EmptyDict

\* C6 witness: a host with two trailing slashes and a duplicated key
C6_Witness ==
    /\ uri = <<"k", ":", "/", "/", "v", "/", "/", "?", "k", "=", "v", "&", "k", "=", "k">>
    /\ parsed.exc = "none"
    /\ parsed.scheme = <<"k">>
    /\ parsed.host = <<"v", "/">>
    /\ parsed.params = (<<"k">> :> <<"k">>)

\* C7: every returned parse has a non-empty scheme.
C7_SchemeNonEmpty ==
    (ParsedOnce /\ parsed.exc = "none") => parsed.scheme # EmptyStr

=============================================================================
